---- MODULE Spec2Model ----
(***************************************************************************)
(* Model of quota-export.py: main(), configure_logging(), _load_config()   *)
(* and prom_client().  One action per statement group of the source; the   *)
(* answers of the environment (file system, YAML parser, resolver, syslog, *)
(* cluster library, HTTP server library) are chosen when the call is made. *)
(***************************************************************************)
EXTENDS Integers, Sequences, FiniteSets, TLC

VARIABLES pc, args, stdout, handlers, levels, log, loaded, config,
          idx, error, resolved, failed, cluster_obj, collector, calls,
          began, completed, exitStatus, outcome, promReturn, sleeps

vars == <<pc, args, stdout, handlers, levels, log, loaded, config,
          idx, error, resolved, failed, cluster_obj, collector, calls,
          began, completed, exitStatus, outcome, promReturn, sleeps>>

(* ------------------------------ bounds --------------------------------- *)

\* longest cluster.hosts list that is explored
MaxHosts == 2

\* number of iterations of the final sleep loop that are explored
MaxSleeps == 2

(* ---------------------------- vocabulary ------------------------------- *)

\* numeric values of the severities of the logging module
LevelNo == [DEBUG |-> 10, INFO |-> 20, WARNING |-> 30, ERROR |-> 40, CRITICAL |-> 50]

HostNames == <<"host1", "host2", "host3", "host4">>

ClusterOptional == {"force_https", "filesystems", "verify_cert", "mgmt_port"}

ExporterOptional == {"timeout", "backends_only", "exceeded_only"}

\* the values prom_client assigns to the optional keys that are absent
Defaults ==
  [force_https |-> FALSE, filesystems |-> "None", verify_cert |-> TRUE,
   mgmt_port |-> 14000, timeout |-> 10, backends_only |-> TRUE,
   exceeded_only |-> TRUE]

\* explicit values a configuration file may give to the optional keys:
\* profile 1 differs from every default, profile 2 repeats the defaults
Explicit(profile) ==
  IF profile = 1
  THEN [force_https |-> TRUE, filesystems |-> "fs1", verify_cert |-> FALSE,
        mgmt_port |-> 14001, timeout |-> 5, backends_only |-> FALSE,
        exceeded_only |-> FALSE]
  ELSE Defaults

ClusterStanza(n, keys, profile) ==
  [k \in {"hosts", "auth_token_file"} \cup keys |->
     IF k = "hosts" THEN SubSeq(HostNames, 1, n)
     ELSE IF k = "auth_token_file" THEN "auth-token.json"
     ELSE Explicit(profile)[k]]

ExporterStanza(keys, profile) ==
  [k \in {"listen_port"} \cup keys |->
     IF k = "listen_port" THEN 8001 ELSE Explicit(profile)[k]]

ClusterStanzas ==
  { ClusterStanza(n, keys, p) :
      n \in 0..MaxHosts, keys \in SUBSET ClusterOptional, p \in 1..2 }

ExporterStanzas ==
  { ExporterStanza(keys, p) : keys \in SUBSET ExporterOptional, p \in 1..2 }

\* the mappings yaml.load can return: each stanza present or absent
Configs ==
  { [s \in {"cluster", "exporter"} |-> IF s = "cluster" THEN c ELSE e] :
      c \in ClusterStanzas, e \in ExporterStanzas }
  \cup { [s \in {"cluster"} |-> c] : c \in ClusterStanzas }
  \cup { [s \in {"exporter"} |-> e] : e \in ExporterStanzas }
  \cup { [s \in {} |-> 0] }

NoConfig == [s \in {} |-> 0]

Steps == <<"logging_init", "configuration_load", "validation",
           "cluster_connect", "collector_bind", "server_start",
           "registration">>

(* ------------------------------ logging -------------------------------- *)

\* Logger.log: a record reaches the handlers when its severity is at least
\* the level of the root logger
Emit(l, rootLevel, level, msg, arg) ==
  IF LevelNo[level] >= rootLevel
  THEN Append(l, [level |-> level, msg |-> msg, arg |-> arg])
  ELSE l

RootLevel == levels["root"]

(* ----------------------------- defaulting ------------------------------ *)

SetDefaultOverwrite(d, k, v) ==
  [x \in (DOMAIN d) \cup {k} |-> IF x = k THEN v ELSE d[x]]

\* if k not in d: d[k] = v
SetDefault(d, k, v) ==
  IF k \in DOMAIN d THEN d
  ELSE [x \in (DOMAIN d) \cup {k} |-> IF x = k THEN v ELSE d[x]]

ApplyDefaults(c) ==
  LET c1 == SetDefault(c["cluster"], "force_https", FALSE)
      c2 == SetDefault(c1, "filesystems", "None")
      c3 == SetDefault(c2, "verify_cert", TRUE)
      c4 == SetDefault(c3, "mgmt_port", 14000)
      e1 == SetDefault(c["exporter"], "timeout", 10)
      e2 == SetDefault(e1, "backends_only", TRUE)
      e3 == SetDefault(e2, "exceeded_only", TRUE)
  IN [c EXCEPT !["cluster"] = c4, !["exporter"] = e3]

(* -------------------------------- Init --------------------------------- *)

NoArgs == [version |-> FALSE, no_syslog |-> FALSE, verbosity |-> 0]

Init ==
  /\ pc = "main"
  /\ args = NoArgs
  /\ stdout = <<>>
  /\ handlers = {}
  /\ levels = [n \in {"root", "wekalib", "wekalib.wekaapi", "wekalib.wekacluster",
                      "wekalib.sthreads", "urllib3", "collector"} |->
                 IF n = "root" THEN LevelNo.WARNING ELSE 0]
  /\ log = <<>>
  /\ loaded = NoConfig
  /\ config = NoConfig
  /\ idx = 0
  /\ error = FALSE
  /\ resolved = <<>>
  /\ failed = {}
  /\ cluster_obj = FALSE
  /\ collector = FALSE
  /\ calls = [exists |-> 0, open |-> 0, gethostbyname |-> 0, WekaCluster |-> 0,
              Collector |-> 0, start_http_server |-> 0, register |-> 0]
  /\ began = <<>>
  /\ completed = {}
  /\ exitStatus = 0
  /\ outcome = "running"
  /\ promReturn = "none"
  /\ sleeps = 0

(* ------------------------------- helpers ------------------------------- *)

Begin(step) == began' = Append(began, step)

Call(name) == calls' = [calls EXCEPT ![name] = @ + 1]

\* the process ends: sys.exit(status), return from main (status 0) or an
\* uncaught exception (status 1)
Terminate(status, why) ==
  /\ pc' = "done"
  /\ exitStatus' = status
  /\ outcome' = why

Hosts == config["cluster"]["hosts"]

(* -------------------------------- main --------------------------------- *)

\* signal_handling(); parser.parse_args()
ParseArgs ==
  /\ pc = "main"
  /\ \E v \in BOOLEAN, ns \in BOOLEAN, vb \in 0..3 :
       args' = [version |-> v, no_syslog |-> ns, verbosity |-> vb]
  /\ pc' = "parsed"
  /\ UNCHANGED <<stdout, handlers, levels, log, loaded, config, idx, error,
                 resolved, failed, cluster_obj, collector, calls, began,
                 completed, exitStatus, outcome, promReturn, sleeps>>

\* if args.version: print(...); sys.exit(0)
PrintVersion ==
  /\ pc = "parsed"
  /\ args.version
  /\ stdout' = Append(stdout, "version 2025-06-25")
  /\ Terminate(0, "version")
  /\ UNCHANGED <<args, handlers, levels, log, loaded, config, idx, error,
                 resolved, failed, cluster_obj, collector, calls, began,
                 completed, promReturn, sleeps>>

LogLevel(verbosity) == IF verbosity >= 2 THEN LevelNo.DEBUG ELSE LevelNo.INFO

LibLogLevel(verbosity) ==
  IF verbosity = 1 THEN LevelNo.INFO
  ELSE IF verbosity > 2 THEN LevelNo.DEBUG
  ELSE LevelNo.ERROR

SetLevels(verbosity) ==
  [n \in DOMAIN levels |->
     IF n \in {"root", "collector"} THEN LogLevel(verbosity)
     ELSE IF n \in {"wekalib.wekaapi", "wekalib.wekacluster"} THEN LibLogLevel(verbosity)
     ELSE LevelNo.ERROR]

SyslogAddr(platform) == IF platform = "macOS" THEN "/var/run/syslog" ELSE "/dev/log"

\* the body of configure_logging(logger, verbosity, disable_syslog)
configure_logging ==
  /\ Begin("logging_init")
  /\ IF args.no_syslog
     THEN /\ handlers' = handlers \cup {"console"}
          /\ levels' = SetLevels(args.verbosity)
          /\ completed' = completed \cup {"logging_init"}
          /\ pc' = "check_exists"
          /\ UNCHANGED <<log, exitStatus, outcome>>
     ELSE /\ log' = Emit(log, RootLevel, "INFO", "setting syslog", "")
          /\ \E platform \in {"macOS", "Linux"}, built \in BOOLEAN :
               IF built
               THEN /\ handlers' = handlers \cup {"console", SyslogAddr(platform)}
                    /\ levels' = SetLevels(args.verbosity)
                    /\ completed' = completed \cup {"logging_init"}
                    /\ pc' = "check_exists"
                    /\ UNCHANGED <<exitStatus, outcome>>
               ELSE \* SysLogHandler(syslogaddr) raises: nothing catches it
                    /\ handlers' = handlers \cup {"console"}
                    /\ Terminate(1, "syslog_error")
                    /\ UNCHANGED <<levels, completed>>
  /\ UNCHANGED <<args, stdout, loaded, config, idx, error, resolved, failed,
                 cluster_obj, collector, calls, promReturn, sleeps>>

ConfigureLoggingBeforeVersion ==
  /\ pc = "parsed"
  /\ configure_logging

\* reached only when --version was not given:
\* configure_logging(log, args.verbosity, disable_syslog=args.no_syslog)
ConfigureLogging ==
  /\ pc = "parsed"
  /\ ~args.version
  /\ configure_logging

\* if not os.path.exists(args.configfile): log.critical(...); sys.exit(1)
CheckConfigExists ==
  /\ pc = "check_exists"
  /\ Call("exists")
  /\ \E exists \in BOOLEAN :
       IF exists
       THEN /\ pc' = "load"
            /\ UNCHANGED <<log, exitStatus, outcome>>
       ELSE /\ log' = Emit(log, RootLevel, "CRITICAL", "configfile does not exist", "")
            /\ Terminate(1, "config_not_found")
  /\ UNCHANGED <<args, stdout, handlers, levels, loaded, config, idx, error,
                 resolved, failed, cluster_obj, collector, began, completed,
                 promReturn, sleeps>>

\* _load_config(inputfile): the mapping read, or the exception raised
\* (after log.error when the parser is the one that failed)
_load_config(r, l) ==
  IF r = "parse_error"
  THEN Emit(l, RootLevel, "ERROR", "Error reading config file", "")
  ELSE l

\* log.debug(...); try: config = _load_config(...) except: log.critical; return
LoadConfig ==
  /\ pc = "load"
  /\ Begin("configuration_load")
  /\ Call("open")
  /\ LET l1 == Emit(log, RootLevel, "DEBUG", "loading config file", "") IN
     \/ \E r \in {"open_error", "parse_error"} :
          /\ log' = Emit(_load_config(r, l1), RootLevel, "CRITICAL",
                         "Error loading config file", r)
          /\ Terminate(0, r)
          /\ UNCHANGED <<loaded, config, completed>>
     \/ \E c \in Configs :
          /\ loaded' = c
          /\ config' = c
          /\ log' = Emit(_load_config("ok", l1), RootLevel, "DEBUG", "config file loaded", "")
          /\ completed' = completed \cup {"configuration_load"}
          /\ pc' = "prom_client"
          /\ UNCHANGED <<exitStatus, outcome>>
  /\ UNCHANGED <<args, stdout, handlers, levels, idx, error, resolved, failed,
                 cluster_obj, collector, promReturn, sleeps>>

(* ----------------------------- prom_client ----------------------------- *)

\* error = False; for host in config['cluster']['hosts']: the subscript is
\* evaluated before anything else, a KeyError is caught by nobody
PromClientEnter ==
  /\ pc = "prom_client"
  /\ Begin("validation")
  /\ IF "cluster" \in DOMAIN config
     THEN /\ error' = FALSE
          /\ idx' = 1
          /\ pc' = "resolve"
          /\ UNCHANGED <<exitStatus, outcome>>
     ELSE /\ Terminate(1, "missing_cluster_keyerror")
          /\ UNCHANGED <<error, idx>>
  /\ UNCHANGED <<args, stdout, handlers, levels, log, loaded, config, resolved,
                 failed, cluster_obj, collector, calls, completed, promReturn,
                 sleeps>>

NextHostFailFast(i, r) == IF r = "ok" THEN i + 1 ELSE Len(Hosts) + 1

\* the for loop goes on to the next host whatever the except clauses did
NextHost(i, r) == i + 1

\* one iteration of the loop: socket.gethostbyname(host) and its handlers
ResolveHost ==
  /\ pc = "resolve"
  /\ idx <= Len(Hosts)
  /\ Call("gethostbyname")
  /\ resolved' = Append(resolved, Hosts[idx])
  /\ \E r \in {"ok", "gaierror", "exception"} :
       /\ idx' = NextHost(idx, r)
       /\ IF r = "ok"
          THEN UNCHANGED <<log, error, failed>>
          ELSE /\ log' = Emit(log, RootLevel, "CRITICAL",
                              IF r = "gaierror" THEN "Hostname not resolvable"
                                                ELSE "resolver exception",
                              Hosts[idx])
               /\ error' = TRUE
               /\ failed' = failed \cup {Hosts[idx]}
  /\ UNCHANGED <<pc, args, stdout, handlers, levels, loaded, config,
                 cluster_obj, collector, began, completed, exitStatus, outcome,
                 promReturn, sleeps>>

\* if error: ... sys.exit(1) / elif 'cluster' not in config: ... /
\* elif 'exporter' not in config: ...
CheckPreflight ==
  /\ pc = "resolve"
  /\ idx > Len(Hosts)
  /\ IF error
     THEN /\ log' = Emit(log, RootLevel, "CRITICAL", "Errors resolving hostnames given", "")
          /\ Terminate(1, "host_unresolvable")
     ELSE IF "cluster" \notin DOMAIN config
     THEN /\ log' = Emit(log, RootLevel, "ERROR", "'cluster:' stanza missing", "")
          /\ Terminate(1, "missing_cluster")
     ELSE IF "exporter" \notin DOMAIN config
     THEN /\ log' = Emit(log, RootLevel, "ERROR", "'exporter:' stanza missing", "")
          /\ Terminate(1, "missing_exporter")
     ELSE /\ pc' = "defaults"
          /\ UNCHANGED <<log, exitStatus, outcome>>
  /\ UNCHANGED <<args, stdout, handlers, levels, loaded, config, idx, error,
                 resolved, failed, cluster_obj, collector, calls, began,
                 completed, promReturn, sleeps>>

\* the seven "if key not in stanza" assignments and log.info(Timeout ...)
DefaultsStep ==
  /\ pc = "defaults"
  /\ config' = ApplyDefaults(config)
  /\ log' = Emit(log, RootLevel, "INFO", "Timeout set", "")
  /\ completed' = completed \cup {"validation"}
  /\ pc' = "connect"
  /\ UNCHANGED <<args, stdout, handlers, levels, loaded, idx, error, resolved,
                 failed, cluster_obj, collector, calls, began, exitStatus,
                 outcome, promReturn, sleeps>>

ConnectFailureLogGeneric(l, lvl, r) ==
  IF r = "http403"
  THEN Emit(l, lvl, "CRITICAL", "Cluster returned permission error", "")
  ELSE IF r = "http_other"
  THEN Emit(l, lvl, "CRITICAL", "Cluster returned HTTP error", "exc")
  ELSE Emit(Emit(l, lvl, "CRITICAL", "Unable to create Weka Cluster", "exc"),
            lvl, "CRITICAL", "traceback", "")

\* the records the except clauses of the WekaCluster call log
ConnectFailureLog(l, lvl, r) ==
  IF r = "http403"
  THEN Emit(l, lvl, "CRITICAL", "Cluster returned permission error", "")
  ELSE IF r = "http_other"
  THEN Emit(l, lvl, "CRITICAL", "Cluster returned HTTP error", "exc")
  ELSE IF r = "ssl"
  THEN Emit(Emit(Emit(l, lvl, "CRITICAL", "SSL Error: Only weka v3.10 and above support https", ""),
                 lvl, "CRITICAL", "SSL Error: Is this cluster < v3.10?", ""),
            lvl, "CRITICAL", "Error is", "exc")
  ELSE Emit(Emit(l, lvl, "CRITICAL", "Unable to create Weka Cluster", "exc"),
            lvl, "CRITICAL", "traceback", "")

\* try: cluster_obj = WekaCluster(...) except HTTPError / SSLError / Exception
ConnectCluster ==
  /\ pc = "connect"
  /\ Begin("cluster_connect")
  /\ Call("WekaCluster")
  /\ \E r \in {"ok", "http403", "http_other", "ssl", "exception"} :
       IF r = "ok"
       THEN /\ cluster_obj' = TRUE
            /\ completed' = completed \cup {"cluster_connect"}
            /\ pc' = "bind"
            /\ UNCHANGED <<log, promReturn, exitStatus, outcome>>
       ELSE /\ log' = ConnectFailureLog(log, RootLevel, r)
            /\ promReturn' = "None"
            /\ Terminate(0, r)
            /\ UNCHANGED <<cluster_obj, completed>>
  /\ UNCHANGED <<args, stdout, handlers, levels, loaded, config, idx, error,
                 resolved, failed, collector, sleeps>>

BindCollectorThenRegister ==
  /\ pc = "bind"
  /\ Begin("collector_bind")
  /\ Call("Collector")
  /\ collector' = TRUE
  /\ completed' = completed \cup {"collector_bind"}
  /\ pc' = "register"
  /\ UNCHANGED <<args, stdout, handlers, levels, log, loaded, config, idx,
                 error, resolved, failed, cluster_obj, exitStatus, outcome,
                 promReturn, sleeps>>

\* collector = Collector(config, cluster_obj)
BindCollector ==
  /\ pc = "bind"
  /\ Begin("collector_bind")
  /\ Call("Collector")
  /\ collector' = TRUE
  /\ completed' = completed \cup {"collector_bind"}
  /\ pc' = "server"
  /\ UNCHANGED <<args, stdout, handlers, levels, log, loaded, config, idx,
                 error, resolved, failed, cluster_obj, exitStatus, outcome,
                 promReturn, sleeps>>

StartServerNoReturn ==
  /\ pc = "server"
  /\ Begin("server_start")
  /\ Call("start_http_server")
  /\ LET l1 == Emit(log, RootLevel, "INFO", "starting http server", "") IN
     \E started \in BOOLEAN :
       IF started
       THEN /\ log' = l1
            /\ completed' = completed \cup {"server_start"}
       ELSE /\ log' = Emit(l1, RootLevel, "CRITICAL", "Unable to start http server", "exc")
            /\ UNCHANGED completed
  /\ pc' = "register"
  /\ UNCHANGED <<args, stdout, handlers, levels, loaded, config, idx, error,
                 resolved, failed, cluster_obj, collector, sleeps, promReturn,
                 exitStatus, outcome>>

\* log.info(...); try: start_http_server(port) except Exception: ... return 1
StartServer ==
  /\ pc = "server"
  /\ Begin("server_start")
  /\ Call("start_http_server")
  /\ LET l1 == Emit(log, RootLevel, "INFO", "starting http server", "") IN
     \E started \in BOOLEAN :
       IF started
       THEN /\ log' = l1
            /\ completed' = completed \cup {"server_start"}
            /\ pc' = "register"
            /\ UNCHANGED <<promReturn, exitStatus, outcome>>
       ELSE /\ log' = Emit(l1, RootLevel, "CRITICAL", "Unable to start http server", "exc")
            /\ promReturn' = "1"
            /\ Terminate(0, "server_start_error")
            /\ UNCHANGED completed
  /\ UNCHANGED <<args, stdout, handlers, levels, loaded, config, idx, error,
                 resolved, failed, cluster_obj, collector, sleeps>>

\* prometheus_client.REGISTRY.register(collector)
Register ==
  /\ pc = "register"
  /\ Begin("registration")
  /\ Call("register")
  /\ completed' = completed \cup {"registration"}
  /\ pc' = "serve"
  /\ UNCHANGED <<args, stdout, handlers, levels, log, loaded, config, idx,
                 error, resolved, failed, cluster_obj, collector, exitStatus,
                 outcome, promReturn, sleeps>>

\* while True: time.sleep(30)
Serve ==
  /\ pc = "serve"
  /\ sleeps < MaxSleeps
  /\ sleeps' = sleeps + 1
  /\ UNCHANGED <<pc, args, stdout, handlers, levels, log, loaded, config, idx,
                 error, resolved, failed, cluster_obj, collector, calls, began,
                 completed, exitStatus, outcome, promReturn>>

Next ==
  \/ ParseArgs
  \/ PrintVersion
  \/ ConfigureLogging
  \/ CheckConfigExists
  \/ LoadConfig
  \/ PromClientEnter
  \/ ResolveHost
  \/ CheckPreflight
  \/ DefaultsStep
  \/ ConnectCluster
  \/ BindCollector
  \/ StartServer
  \/ Register
  \/ Serve

Spec == Init /\ [][Next]_vars

(* ------------------------------ properties ----------------------------- *)

Logged(msg) == \E i \in 1..Len(log) : log[i].msg = msg

Prefix(s, t) ==
  /\ Len(s) <= Len(t)
  /\ \A i \in 1..Len(s) : s[i] = t[i]

\* the steps begun so far are an initial part of order, and every step but
\* the last one begun has completed
StrictSequence(order) ==
  /\ Prefix(began, order)
  /\ \A i \in 1..(Len(began) - 1) : began[i] \in completed

SpecOrder == <<"configuration_load", "logging_init", "validation",
               "cluster_connect", "collector_bind", "server_start",
               "registration">>

\* C1 as stated: the startup steps run in the order configuration load,
\* logging init, validation, cluster connect, collector bind, server start,
\* registration, each beginning only after its predecessor has completed.
C1_AsStated == StrictSequence(SpecOrder)

\* C1 amended: the startup steps run in the order logging init,
\* configuration load, validation, cluster connect, collector bind, server
\* start, registration, each beginning only after its predecessor has
\* completed; logging is configured before the configuration file is loaded.
C1_StartupOrder == StrictSequence(Steps)

C1_Witness == pc = "serve" /\ began = Steps /\ completed = {Steps[i] : i \in 1..Len(Steps)}

ConnectFailed ==
  \/ Logged("Cluster returned permission error")
  \/ Logged("Cluster returned HTTP error")
  \/ Logged("SSL Error: Only weka v3.10 and above support https")
  \/ Logged("Unable to create Weka Cluster")

\* C2: a failure of WekaCluster ends the run after exactly one call of
\* WekaCluster, with no Collector, no HTTP server and no registration; a
\* failure of start_http_server ends the run after exactly one call of it,
\* with no registration, and prom_client returns 1.
C2_SetupFailureTerminal ==
  /\ ConnectFailed =>
       /\ pc = "done"
       /\ calls.WekaCluster = 1
       /\ calls.Collector = 0 /\ ~collector
       /\ calls.start_http_server = 0
       /\ calls.register = 0
  /\ Logged("Unable to start http server") =>
       /\ pc = "done"
       /\ calls.start_http_server = 1
       /\ calls.register = 0
       /\ promReturn = "1"

C2_Witness ==
  /\ Logged("Unable to start http server")
  /\ calls.WekaCluster = 1
  /\ collector

PastResolution ==
  /\ "validation" \in {began[i] : i \in 1..Len(began)}
  /\ "cluster" \in DOMAIN config
  /\ pc # "resolve"

HostCriticals(h) ==
  Cardinality({ i \in 1..Len(log) :
                  /\ log[i].level = "CRITICAL"
                  /\ log[i].msg \in {"Hostname not resolvable", "resolver exception"}
                  /\ log[i].arg = h })

HostAbort == pc = "done" /\ outcome = "host_unresolvable" /\ exitStatus = 1

\* C3: resolution is attempted for every host of cluster.hosts whatever
\* fails, one critical record is logged per failing host, and the check that
\* follows the loop exits with status 1 exactly when some host failed, in
\* which case no default was applied and WekaCluster was never called.
C3_ResolveAllHosts ==
  /\ PastResolution =>
       /\ resolved = Hosts
       /\ calls.gethostbyname = Len(Hosts)
       /\ HostAbort <=> failed # {}
  /\ "cluster" \in DOMAIN config =>
       \A i \in 1..Len(Hosts) :
         HostCriticals(Hosts[i]) = IF Hosts[i] \in failed THEN 1 ELSE 0
  /\ HostAbort =>
       /\ Logged("Errors resolving hostnames given")
       /\ config = loaded
       /\ calls.WekaCluster = 0

C3_Witness ==
  /\ HostAbort
  /\ Len(Hosts) >= 2
  /\ failed = {Hosts[1]}
  /\ resolved = Hosts

\* C4 as stated: a configuration without the 'cluster' key ends validation
\* with the "'cluster:' stanza missing" record and exit status 1, before any
\* hostname resolution or cluster connection.
C4_MissingClusterStanza ==
  ("cluster" \notin DOMAIN loaded /\ Len(began) >= 3) =>
     /\ pc = "done"
     /\ exitStatus = 1
     /\ Logged("'cluster:' stanza missing")
     /\ calls.gethostbyname = 0
     /\ calls.WekaCluster = 0

Optional(s) == IF s = "cluster" THEN ClusterOptional ELSE ExporterOptional

Defaulted == "validation" \in completed

\* C5: after validation each of the seven optional keys is present, holds
\* the configured value when it was configured and the default otherwise,
\* every other key is as loaded, and defaulting again changes nothing.
C5_Defaulting ==
  /\ DOMAIN config = DOMAIN loaded
  /\ ~Defaulted => config = loaded
  /\ Defaulted =>
       /\ \A s \in {"cluster", "exporter"} :
            /\ DOMAIN config[s] = (DOMAIN loaded[s]) \cup Optional(s)
            /\ \A k \in DOMAIN config[s] :
                 config[s][k] = IF k \in DOMAIN loaded[s] THEN loaded[s][k]
                                ELSE Defaults[k]
       /\ ApplyDefaults(config) = config

C5_Witness ==
  /\ Defaulted
  /\ "timeout" \in DOMAIN loaded["exporter"]
  /\ loaded["exporter"]["timeout"] = 5
  /\ config["exporter"]["timeout"] = 5
  /\ "mgmt_port" \notin DOMAIN loaded["cluster"]
  /\ config["cluster"]["mgmt_port"] = 14000

ClaimedStatus(why) ==
  IF why \in {"config_not_found", "host_unresolvable", "missing_cluster",
              "missing_cluster_keyerror", "missing_exporter"}
  THEN 1
  ELSE 0

\* C6 as stated: the exit status is 0 on --version, 1 when the config file
\* does not exist, 1 when a host does not resolve, 1 when a required stanza
\* is missing, and every other run blocks forever or ends with status 0.
C6_ExitStatus == pc = "done" => exitStatus = ClaimedStatus(outcome)

ConnectRecords ==
  SelectSeq(log, LAMBDA rec :
    rec.msg \in {"Cluster returned permission error", "Cluster returned HTTP error",
                 "SSL Error: Only weka v3.10 and above support https",
                 "SSL Error: Is this cluster < v3.10?", "Error is",
                 "Unable to create Weka Cluster", "traceback"})

ConnectMsgs == [i \in 1..Len(ConnectRecords) |-> ConnectRecords[i].msg]

AllCritical(recs) == \A i \in 1..Len(recs) : recs[i].level = "CRITICAL"

\* C7 as stated: three outcomes; 403 logs the access-level record, an SSL
\* error logs the TLS records and never the generic one, and every other
\* failure, an HTTP error with another code included, logs the cause
\* together with a full trace.
C7_AsStated ==
  /\ outcome = "http403" => Logged("Cluster returned permission error")
  /\ outcome = "ssl" =>
       /\ Logged("SSL Error: Only weka v3.10 and above support https")
       /\ ~Logged("Unable to create Weka Cluster")
  /\ outcome \in {"http_other", "exception"} =>
       /\ Logged("Unable to create Weka Cluster")
       /\ Logged("traceback")

\* C7 amended: four outcomes, each followed by return; 403 logs the
\* access-level record, an HTTP error with another code logs a critical
\* "Cluster returned HTTP error" record with the cause and no trace, an SSL
\* error logs the TLS records and never the generic one, and every other
\* failure logs the cause together with a full trace.
C7_ConnectClassification ==
  /\ AllCritical(ConnectRecords)
  /\ outcome \notin {"http403", "http_other", "ssl", "exception"} => ConnectMsgs = <<>>
  /\ outcome = "http403" =>
       pc = "done" /\ ConnectMsgs = <<"Cluster returned permission error">>
  /\ outcome = "http_other" =>
       pc = "done" /\ ConnectMsgs = <<"Cluster returned HTTP error">>
  /\ outcome = "ssl" =>
       /\ pc = "done"
       /\ ConnectMsgs = <<"SSL Error: Only weka v3.10 and above support https",
                          "SSL Error: Is this cluster < v3.10?", "Error is">>
  /\ outcome = "exception" =>
       pc = "done" /\ ConnectMsgs = <<"Unable to create Weka Cluster", "traceback">>

C7_Witness ==
  /\ outcome = "http_other"
  /\ Logged("Cluster returned HTTP error")
  /\ ~Logged("traceback")

TaxonomyFailures ==
  {"config_not_found", "open_error", "parse_error", "host_unresolvable",
   "missing_cluster", "missing_cluster_keyerror", "missing_exporter",
   "http403", "http_other", "ssl", "exception", "server_start_error"}

\* C8 as stated: every run that ends in a failure of the taxonomy has
\* emitted at least one record of CRITICAL severity.
C8_CriticalBeforeExit ==
  (pc = "done" /\ outcome \in TaxonomyFailures) =>
     \E i \in 1..Len(log) : log[i].level = "CRITICAL"

\* C9 as stated: once configure_logging has run with syslog enabled it has
\* completed with the console sink attached and the levels set, also when
\* the syslog handler could not be constructed, and main goes on to the
\* config-file existence check.
C9_SyslogNotFatal ==
  (Len(began) >= 1 /\ ~args.no_syslog) =>
     /\ "logging_init" \in completed
     /\ "console" \in handlers
     /\ levels = SetLevels(args.verbosity)
     /\ outcome # "syslog_error"

\* C10: with --version the run ends with status 0 right after printing the
\* version: no existence check, no open of the config file, no logging
\* configuration, no startup step.
C10_VersionOnly ==
  args.version =>
     /\ pc \in {"parsed", "done"}
     /\ pc = "done" => (exitStatus = 0 /\ stdout = <<"version 2025-06-25">>)
     /\ calls.exists = 0 /\ calls.open = 0
     /\ handlers = {}
     /\ levels["root"] = LevelNo.WARNING
     /\ log = <<>>
     /\ began = <<>>
     /\ loaded = NoConfig

C10_Witness ==
  /\ args.version
  /\ pc = "done"
  /\ outcome = "version"
  /\ ~args.no_syslog
  /\ args.verbosity = 3

====
